---------------------------- MODULE Spec2Model ----------------------------
(***************************************************************************)
(* Model of the voice-relay repository:                                    *)
(*   - services/pipecat/orchestrator.py : the Flask control plane that     *)
(*     spawns / stops one agent subprocess per request and tracks it in    *)
(*     the module-level dict active_agents;                                *)
(*   - services/pipecat/processors.py   : ProductSearchProcessor and       *)
(*     ConversationLogger, the two custom pipeline stages;                 *)
(*   - services/pipecat/agent.py        : the order of the pipeline        *)
(*     stages built by create_voice_agent.                                 *)
(***************************************************************************)
EXTENDS Integers, Sequences, FiniteSets, TLC

VARIABLES
    \* ---- orchestrator.py ----
    active_agents,   \* dict session_id -> [process] (room_url, user_id are only echoed)
    pstatus,         \* per spawned subprocess: "unborn" | "running" | "exited"
    psid,            \* per spawned subprocess: the SESSION_ID of its environment
    req,             \* per Flask worker thread: the request it is handling
    \* ---- processors.py ----
    logged_messages, \* ConversationLogger.logged_messages
    transcripts,     \* bag of the addTranscript requests posted so far
    search_requests, \* number of searchProducts requests posted so far
    stage,           \* the processor whose process_frame ran last
    frame_in,        \* the frame it was given
    frame_out,       \* the frame it returned
    http_outcome,    \* how its last outbound request ended ("none": no request)
    raised,          \* whether an exception escaped process_frame
    \* ---- agent.py ----
    pipe_pos,        \* index in pipeline of the stage holding the frame in flight
    pipe_frame,      \* the frame in flight
    gemini_received, \* the frames delivered to the Gemini stage so far
    search_results   \* the function-result frames that left the pipeline

orchVars == <<active_agents, pstatus, psid, req>>

stageVars == <<logged_messages, transcripts, search_requests, stage,
               frame_in, frame_out, http_outcome, raised>>

pipeVars == <<pipe_pos, pipe_frame, gemini_received, search_results>>

vars == <<active_agents, pstatus, psid, req,
          logged_messages, transcripts, search_requests, stage,
          frame_in, frame_out, http_outcome, raised,
          pipe_pos, pipe_frame, gemini_received, search_results>>

-----------------------------------------------------------------------------
(* Bounds *)

MaxThreads == 2      \* concurrent Flask worker threads
MaxProcs == 2        \* subprocesses spawned over a run

Threads == 1..MaxThreads
Pids == 1..MaxProcs
Sessions == {"s1", "s2"}
NoSid == "none"

-----------------------------------------------------------------------------
(* orchestrator.py *)

required_fields == <<"room_url", "token", "session_id", "user_id">>

FieldSet == {required_fields[i] : i \in 1..Len(required_fields)}

\* A JSON object sent to /start-agent: the keys it holds, and its session_id.
Payloads ==
    {[fields |-> f, session_id |-> s] :
        <<f, s>> \in {x \in (SUBSET FieldSet) \X (Sessions \cup {NoSid}) :
                        (x[2] = NoSid) <=> ("session_id" \notin x[1])}}

\* for field in required_fields: if field not in data: return ... 400
MissingFields(data) == {i \in 1..Len(required_fields) : required_fields[i] \notin data.fields}

\* Whether subprocess.Popen succeeds; it is only called for a complete payload.
PopenOutcomes(data) == IF MissingFields(data) = {} THEN BOOLEAN ELSE {TRUE}

\* A worker thread: where its handler stands (pc), the handler's locals
\* (sid: session_id, proc: agent_process / process) and, once it has returned,
\* the reply (code, detail).  complete: whether the payload of the request
\* held every required field.
Idle == [pc |-> "idle", kind |-> "none", sid |-> NoSid, proc |-> 0,
         code |-> 0, detail |-> "", complete |-> TRUE]

\* return jsonify(...), code
Return(kind, code, detail) ==
    [Idle EXCEPT !.pc = "done", !.kind = kind, !.code = code, !.detail = detail]

\* del active_agents[session_id]
DelKey(d, k) == [s \in (DOMAIN d) \ {k} |-> d[s]]

\* active_agents[session_id] = {...}
SetKey(d, k, v) == [s \in (DOMAIN d) \cup {k} |-> IF s = k THEN v ELSE d[s]]

Unborn == {p \in Pids : pstatus[p] = "unborn"}

NewPid == CHOOSE p \in Unborn : \A q \in Unborn : p <= q

\* StartAgent without the check of the last required field.
StartAgent_SkipsUserId(t, data, popen_ok) ==
    /\ req[t].pc = "idle"
    /\ IF MissingFields(data) \ {4} # {}
       THEN /\ req' = [req EXCEPT ![t] =
                    [Return("start", 400, "missing_field") EXCEPT !.complete = FALSE]]
            /\ UNCHANGED <<active_agents, pstatus, psid>>
       ELSE IF ~popen_ok
       THEN /\ req' = [req EXCEPT ![t] =
                    [Return("start", 500, "exception")
                        EXCEPT !.complete = (MissingFields(data) = {})]]
            /\ UNCHANGED <<active_agents, pstatus, psid>>
       ELSE /\ Unborn # {}
            /\ pstatus' = [pstatus EXCEPT ![NewPid] = "running"]
            /\ psid' = [psid EXCEPT ![NewPid] = data.session_id]
            /\ active_agents' = SetKey(active_agents, data.session_id,
                                       [process |-> NewPid])
            /\ req' = [req EXCEPT ![t] =
                    [Idle EXCEPT !.pc = "start_sleep", !.kind = "start",
                                 !.sid = data.session_id, !.proc = NewPid,
                                 !.complete = (MissingFields(data) = {})]]

\* POST /start-agent, up to time.sleep(0.5): validate, Popen, track.
\* popen_ok = FALSE: subprocess.Popen raises (caught by the outer except).
StartAgent(t, data, popen_ok) ==
    /\ req[t].pc = "idle"
    /\ IF MissingFields(data) # {}
       THEN /\ req' = [req EXCEPT ![t] =
                    [Return("start", 400, "missing_field") EXCEPT !.complete = FALSE]]
            /\ UNCHANGED <<active_agents, pstatus, psid>>
       ELSE IF ~popen_ok
       THEN /\ req' = [req EXCEPT ![t] = Return("start", 500, "exception")]
            /\ UNCHANGED <<active_agents, pstatus, psid>>
       ELSE /\ Unborn # {}
            /\ pstatus' = [pstatus EXCEPT ![NewPid] = "running"]
            /\ psid' = [psid EXCEPT ![NewPid] = data.session_id]
            /\ active_agents' = SetKey(active_agents, data.session_id,
                                       [process |-> NewPid])
            /\ req' = [req EXCEPT ![t] =
                    [Idle EXCEPT !.pc = "start_sleep", !.kind = "start",
                                 !.sid = data.session_id, !.proc = NewPid]]

\* POST /start-agent, after time.sleep(0.5): agent_process.poll() and the reply.
StartAgentPoll(t) ==
    /\ req[t].pc = "start_sleep"
    /\ UNCHANGED <<pstatus, psid>>
    /\ IF pstatus[req[t].proc] = "exited"
       THEN IF req[t].sid \in DOMAIN active_agents
            THEN /\ active_agents' = DelKey(active_agents, req[t].sid)
                 /\ req' = [req EXCEPT ![t] = Return("start", 500, "crashed")]
            ELSE \* del raises KeyError, swallowed by the inner except: falls
                 \* through to the success reply
                 /\ UNCHANGED active_agents
                 /\ req' = [req EXCEPT ![t] = Return("start", 200, "success")]
       ELSE /\ UNCHANGED active_agents
            /\ req' = [req EXCEPT ![t] = Return("start", 200, "success")]

\* POST /stop-agent/<session_id>, up to process.wait(timeout=5).
StopAgent(t, session_id) ==
    /\ req[t].pc = "idle"
    /\ UNCHANGED <<active_agents, pstatus, psid>>
    /\ IF session_id \notin DOMAIN active_agents
       THEN req' = [req EXCEPT ![t] = Return("stop", 404, "not_found")]
       ELSE req' = [req EXCEPT ![t] =
                [Idle EXCEPT !.pc = "stop_wait", !.kind = "stop",
                             !.sid = session_id,
                             !.proc = active_agents[session_id].process]]

\* StopAgentWait without process.wait(): the entry is dropped and 200 sent
\* whether or not the process has ended.
StopAgentWait_NoWait(t) ==
    /\ req[t].pc = "stop_wait"
    /\ UNCHANGED <<pstatus, psid>>
    /\ IF req[t].sid \notin DOMAIN active_agents
       THEN /\ UNCHANGED active_agents
            /\ req' = [req EXCEPT ![t] = Return("stop", 500, "exception")]
       ELSE /\ active_agents' = DelKey(active_agents, req[t].sid)
            /\ req' = [req EXCEPT ![t] = Return("stop", 200, "success")]

\* POST /stop-agent/<session_id>: process.wait(timeout=5) returns or raises
\* TimeoutExpired, then del active_agents[session_id] and the reply.
StopAgentWait(t) ==
    /\ req[t].pc = "stop_wait"
    /\ UNCHANGED <<pstatus, psid>>
    /\ IF pstatus[req[t].proc] # "exited"
       THEN /\ UNCHANGED active_agents
            /\ req' = [req EXCEPT ![t] = Return("stop", 500, "exception")]
       ELSE IF req[t].sid \notin DOMAIN active_agents
       THEN /\ UNCHANGED active_agents
            /\ req' = [req EXCEPT ![t] = Return("stop", 500, "exception")]
       ELSE /\ active_agents' = DelKey(active_agents, req[t].sid)
            /\ req' = [req EXCEPT ![t] = Return("stop", 200, "success")]

\* The reply has been sent; the worker thread takes the next request.
Reply(t) ==
    /\ req[t].pc = "done"
    /\ req' = [req EXCEPT ![t] = Idle]
    /\ UNCHANGED <<active_agents, pstatus, psid>>

\* The agent subprocess ends: crash at startup, SIGTERM from terminate(), or
\* the end of its run.
ProcExit(p) ==
    /\ pstatus[p] = "running"
    /\ pstatus' = [pstatus EXCEPT ![p] = "exited"]
    /\ UNCHANGED <<active_agents, psid, req>>

\* GET /health
health == [status |-> "ok", active_agents |-> Cardinality(DOMAIN active_agents)]

\* list_agents reporting every tracked entry as running.
list_agents_AllRunning ==
    {[session_id |-> s, pid |-> active_agents[s].process, running |-> TRUE]
        : s \in DOMAIN active_agents}

\* GET /agents
list_agents ==
    {[session_id |-> s,
      pid |-> active_agents[s].process,
      running |-> (pstatus[active_agents[s].process] = "running")]
        : s \in DOMAIN active_agents}

OrchInit ==
    /\ active_agents = [s \in {} |-> [process |-> 0]]
    /\ pstatus = [p \in Pids |-> "unborn"]
    /\ psid = [p \in Pids |-> NoSid]
    /\ req = [t \in Threads |-> Idle]


-----------------------------------------------------------------------------
(* processors.py : frames and messages *)

KeyLen == 50         \* content[:50]
MaxMsgs == 1         \* messages per LLMMessagesFrame
MaxSearches == 1     \* searchProducts requests over a run

\* Message contents are strings, modelled as sequences of character codes:
\* the empty string and two strings that differ only after the first KeyLen
\* characters.
Pad == [i \in 1..KeyLen |-> 1]
Long1 == Pad \o <<1>>
Long2 == Pad \o <<2>>
Contents == {<< >>, Long1, Long2}

Roles == {"system", "function", "user", "assistant"}

Msg(role, name, content) == [role |-> role, name |-> name, content |-> content]

Messages == {Msg(r, "", c) : r \in Roles, c \in Contents}

SeqsUpTo(S, n) == UNION {[1..k -> S] : k \in 0..n}

LLMMessagesFrame(messages) ==
    [type |-> "LLMMessagesFrame", messages |-> messages, function_name |-> ""]

FunctionCallFrame(function_name) ==
    [type |-> "FunctionCallFrame", messages |-> << >>, function_name |-> function_name]

AudioFrame == [type |-> "AudioRawFrame", messages |-> << >>, function_name |-> ""]

FunctionNames == {"search_products", "get_weather"}

Frames ==
    {LLMMessagesFrame(m) : m \in SeqsUpTo(Messages, MaxMsgs)}
        \cup {FunctionCallFrame(n) : n \in FunctionNames}
        \cup {AudioFrame}

\* How one outbound httpx request can end.
HttpOutcomes == {"status_200", "status_other", "timeout", "exception"}

\* The contents of the function-result messages (processors.py lines 75, 85, 96),
\* as character codes like every other content.
ResultsText == <<2, 1>>
CouldNotSearchText == <<2, 2>>
SearchErrorText == <<2, 3>>

-----------------------------------------------------------------------------
(* processors.py : ProductSearchProcessor *)

\* What process_frame returns for a search_products call, by how the request
\* ended.  invalid_json: a 200 reply whose body response.json() rejects.
SearchReply(outcome) ==
    LLMMessagesFrame(<<Msg("function", "search_products",
        CASE outcome = "status_200" -> ResultsText
          [] outcome = "status_other" -> CouldNotSearchText
          [] OTHER -> SearchErrorText)>>)

SearchOutcomes == HttpOutcomes \cup {"invalid_json"}

IsSearchCall(frame) ==
    frame.type = "FunctionCallFrame" /\ frame.function_name = "search_products"

\* ProductSearchProcessor.process_frame without the except clause: a failed
\* request propagates out of process_frame.
ProductProcessFrame_NoExcept(frame, outcome) ==
    /\ stage' = "product_processor"
    /\ frame_in' = frame
    /\ UNCHANGED <<logged_messages, transcripts>>
    /\ IF IsSearchCall(frame)
       THEN /\ search_requests < MaxSearches
            /\ search_requests' = search_requests + 1
            /\ http_outcome' = outcome
            /\ raised' = (outcome \in {"timeout", "exception", "invalid_json"})
            /\ frame_out' = IF raised' THEN frame ELSE SearchReply(outcome)
       ELSE /\ UNCHANGED search_requests
            /\ raised' = FALSE
            /\ http_outcome' = "none"
            /\ frame_out' = frame

\* ProductSearchProcessor.process_frame: its effect on the processor's own state.
ProductProcessFrame(frame, outcome) ==
    /\ stage' = "product_processor"
    /\ frame_in' = frame
    /\ raised' = FALSE
    /\ UNCHANGED <<logged_messages, transcripts>>
    /\ IF IsSearchCall(frame)
       THEN /\ search_requests < MaxSearches
            /\ search_requests' = search_requests + 1
            /\ http_outcome' = outcome
            /\ frame_out' = SearchReply(outcome)
       ELSE /\ UNCHANGED search_requests
            /\ http_outcome' = "none"
            /\ frame_out' = frame

-----------------------------------------------------------------------------
(* processors.py : ConversationLogger *)

\* content[:50]
Prefix(content) ==
    SubSeq(content, 1, IF Len(content) < KeyLen THEN Len(content) ELSE KeyLen)

\* f"{role}:{content[:50]}"
message_key(role, content) == <<role, Prefix(content)>>

\* speaker = "user" if role == "user" else "agent"
Speaker(role) == IF role = "user" THEN "user" ELSE "agent"

\* The JSON body of an addTranscript request (timestamp left out), with the
\* role of the message it was posted for.
Transcript(role, content) ==
    [speaker |-> Speaker(role), text |-> content, role |-> role]

BagAdd(B, e) ==
    IF e \in DOMAIN B
    THEN [B EXCEPT ![e] = @ + 1]
    ELSE [x \in (DOMAIN B) \cup {e} |-> IF x = e THEN 1 ELSE B[x]]

\* if role in ("system", "function") or not content: continue
Skipped(message) ==
    message.role \in {"system", "function"} \/ message.content = << >>

\* The for loop without the test of the seen-set.
RECURSIVE LogMessages_NoSeenTest(_, _, _)
LogMessages_NoSeenTest(messages, logged, posted) ==
    IF messages = << >>
    THEN [logged |-> logged, posted |-> posted]
    ELSE LET message == Head(messages)
             key == message_key(message.role, message.content)
         IN  IF Skipped(message)
             THEN LogMessages_NoSeenTest(Tail(messages), logged, posted)
             ELSE LogMessages_NoSeenTest(Tail(messages), logged \cup {key},
                              BagAdd(posted, Transcript(message.role, message.content)))

\* The for loop of process_frame over frame.messages: the seen-set and the
\* bag of posted requests after it.
RECURSIVE LogMessages(_, _, _)
LogMessages(messages, logged, posted) ==
    IF messages = << >>
    THEN [logged |-> logged, posted |-> posted]
    ELSE LET message == Head(messages)
             key == message_key(message.role, message.content)
         IN  IF Skipped(message) \/ key \in logged
             THEN LogMessages(Tail(messages), logged, posted)
             ELSE LogMessages(Tail(messages), logged \cup {key},
                              BagAdd(posted, Transcript(message.role, message.content)))

\* ConversationLogger.process_frame that returns None when the request of
\* _log_to_convex fails.
LoggerProcessFrame_DropsOnFailure(frame, outcome) ==
    LET after == IF frame.type = "LLMMessagesFrame"
                 THEN LogMessages(frame.messages, logged_messages, transcripts)
                 ELSE [logged |-> logged_messages, posted |-> transcripts]
    IN  /\ stage' = "conversation_logger"
        /\ frame_in' = frame
        /\ raised' = FALSE
        /\ logged_messages' = after.logged
        /\ transcripts' = after.posted
        /\ http_outcome' = outcome
        /\ frame_out' = IF outcome \in {"timeout", "exception"}
                        THEN [type |-> "None", messages |-> << >>, function_name |-> ""]
                        ELSE frame
        /\ UNCHANGED search_requests

\* ConversationLogger.process_frame (with _log_to_convex, which swallows every
\* failure of its request): its effect on the logger's own state.
LoggerProcessFrame(frame, outcome) ==
    LET after == IF frame.type = "LLMMessagesFrame"
                 THEN LogMessages(frame.messages, logged_messages, transcripts)
                 ELSE [logged |-> logged_messages, posted |-> transcripts]
    IN  /\ stage' = "conversation_logger"
        /\ frame_in' = frame
        /\ raised' = FALSE
        /\ logged_messages' = after.logged
        /\ transcripts' = after.posted
        /\ http_outcome' = outcome
        /\ frame_out' = frame
        /\ UNCHANGED search_requests

\* How the requests a call makes can end: "none" when it makes no request.
ProductOutcomes(frame) == IF IsSearchCall(frame) THEN SearchOutcomes ELSE {"none"}

LoggerOutcomes(frame) ==
    IF /\ frame.type = "LLMMessagesFrame"
       /\ LogMessages(frame.messages, logged_messages, transcripts).posted # transcripts
    THEN HttpOutcomes
    ELSE {"none"}

StageInit ==
    /\ logged_messages = {}
    /\ transcripts = [x \in {} |-> 0]
    /\ search_requests = 0
    /\ stage = "none"
    /\ frame_in = AudioFrame
    /\ frame_out = AudioFrame
    /\ http_outcome = "none"
    /\ raised = FALSE

-----------------------------------------------------------------------------
(* agent.py : the pipeline built by create_voice_agent *)

pipeline == <<"transport_input", "gemini_service", "aggregator",
              "product_processor", "conversation_logger", "transport_output">>

StageAt(name) == CHOOSE i \in 1..Len(pipeline) : pipeline[i] = name

\* task.queue_frames([LLMMessagesFrame([{"role": "system", ...}])])
SystemPromptFrame == LLMMessagesFrame(<<Msg("system", "", Long1)>>)

\* What enters at the head of the pipeline: audio from the Daily room and the
\* queued system prompt.
InputFrames == {AudioFrame, SystemPromptFrame}

\* What the LLM stage may send downstream.
GeminiFrames ==
    {FunctionCallFrame(n) : n \in FunctionNames}
        \cup {LLMMessagesFrame(<<Msg("assistant", "", c)>>) : c \in {Long1, Long2}}
        \cup {AudioFrame}

IsSearchResult(frame) ==
    /\ frame.type = "LLMMessagesFrame"
    /\ Len(frame.messages) = 1
    /\ frame.messages[1].role = "function"
    /\ frame.messages[1].name = "search_products"

\* A frame enters the pipeline at its first stage.
PipeEnter(frame) ==
    /\ pipe_pos = 0
    /\ pipe_pos' = 1
    /\ pipe_frame' = frame
    /\ UNCHANGED <<gemini_received, search_results>>
    /\ UNCHANGED stageVars

\* transport.input_processor() hands the frame downstream.
PipeTransportInput ==
    /\ pipe_pos = StageAt("transport_input")
    /\ pipe_pos' = pipe_pos + 1
    /\ UNCHANGED <<pipe_frame, gemini_received, search_results>>
    /\ UNCHANGED stageVars

\* gemini_service receives the frame and sends a frame of its own downstream.
PipeGemini(reply) ==
    /\ pipe_pos = StageAt("gemini_service")
    /\ gemini_received' = gemini_received \cup {pipe_frame}
    /\ pipe_frame' = reply
    /\ pipe_pos' = pipe_pos + 1
    /\ UNCHANGED search_results
    /\ UNCHANGED stageVars

\* aggregator hands the frame downstream.
PipeAggregator ==
    /\ pipe_pos = StageAt("aggregator")
    /\ pipe_pos' = pipe_pos + 1
    /\ UNCHANGED <<pipe_frame, gemini_received, search_results>>
    /\ UNCHANGED stageVars

\* product_processor: what process_frame returns goes downstream.
PipeProduct(outcome) ==
    /\ pipe_pos = StageAt("product_processor")
    /\ ProductProcessFrame(pipe_frame, outcome)
    /\ pipe_frame' = frame_out'
    /\ pipe_pos' = pipe_pos + 1
    /\ UNCHANGED <<gemini_received, search_results>>

\* conversation_logger: what process_frame returns goes downstream.
PipeLogger(outcome) ==
    /\ pipe_pos = StageAt("conversation_logger")
    /\ LoggerProcessFrame(pipe_frame, outcome)
    /\ pipe_frame' = frame_out'
    /\ pipe_pos' = pipe_pos + 1
    /\ UNCHANGED <<gemini_received, search_results>>

\* transport.output_processor() is the last stage: the frame leaves the pipeline.
PipeTransportOutput ==
    /\ pipe_pos = StageAt("transport_output")
    /\ pipe_pos' = 0
    /\ search_results' = IF IsSearchResult(pipe_frame)
                         THEN search_results \cup {pipe_frame}
                         ELSE search_results
    /\ UNCHANGED <<pipe_frame, gemini_received>>
    /\ UNCHANGED stageVars

PipeInit ==
    /\ pipe_pos = 0
    /\ pipe_frame = AudioFrame
    /\ gemini_received = {}
    /\ search_results = {}

-----------------------------------------------------------------------------
(* Specifications *)

Init == OrchInit /\ StageInit /\ PipeInit

\* The orchestrator process: concurrent request handlers and the subprocesses.
DoStartAgent ==
    /\ \E t \in Threads, data \in Payloads :
          \E ok \in PopenOutcomes(data) : StartAgent(t, data, ok)
    /\ UNCHANGED <<stageVars, pipeVars>>
DoStartAgentPoll ==
    /\ \E t \in Threads : StartAgentPoll(t)
    /\ UNCHANGED <<stageVars, pipeVars>>
DoStopAgent ==
    /\ \E t \in Threads, s \in Sessions : StopAgent(t, s)
    /\ UNCHANGED <<stageVars, pipeVars>>
DoStopAgentWait ==
    /\ \E t \in Threads : StopAgentWait(t)
    /\ UNCHANGED <<stageVars, pipeVars>>
DoReply ==
    /\ \E t \in Threads : Reply(t)
    /\ UNCHANGED <<stageVars, pipeVars>>
DoProcExit ==
    /\ \E p \in Pids : ProcExit(p)
    /\ UNCHANGED <<stageVars, pipeVars>>

Next ==
    \/ DoStartAgent
    \/ DoStartAgentPoll
    \/ DoStopAgent
    \/ DoStopAgentWait
    \/ DoReply
    \/ DoProcExit

Spec == Init /\ [][Next]_vars

\* The two custom stages, each given any frame.
DoProductProcessFrame ==
    /\ \E frame \in Frames : \E outcome \in ProductOutcomes(frame) :
            ProductProcessFrame(frame, outcome)
    /\ UNCHANGED <<orchVars, pipeVars>>
DoLoggerProcessFrame ==
    /\ \E frame \in Frames : \E outcome \in LoggerOutcomes(frame) :
            LoggerProcessFrame(frame, outcome)
    /\ UNCHANGED <<orchVars, pipeVars>>

StagesNext ==
    \/ DoProductProcessFrame
    \/ DoLoggerProcessFrame

StagesSpec == Init /\ [][StagesNext]_vars

\* The agent process: frames flowing down the pipeline, one at a time.
DoPipeEnter == (\E frame \in InputFrames : PipeEnter(frame)) /\ UNCHANGED orchVars
DoPipeTransportInput == PipeTransportInput /\ UNCHANGED orchVars
DoPipeGemini == (\E reply \in GeminiFrames : PipeGemini(reply)) /\ UNCHANGED orchVars
DoPipeAggregator == PipeAggregator /\ UNCHANGED orchVars
DoPipeProduct ==
    /\ \E outcome \in ProductOutcomes(pipe_frame) : PipeProduct(outcome)
    /\ UNCHANGED orchVars
DoPipeLogger ==
    /\ \E outcome \in LoggerOutcomes(pipe_frame) : PipeLogger(outcome)
    /\ UNCHANGED orchVars
DoPipeTransportOutput == PipeTransportOutput /\ UNCHANGED orchVars

PipelineNext ==
    \/ DoPipeEnter
    \/ DoPipeTransportInput
    \/ DoPipeGemini
    \/ DoPipeAggregator
    \/ DoPipeProduct
    \/ DoPipeLogger
    \/ DoPipeTransportOutput

PipelineSpec == Init /\ [][PipelineNext]_vars

-----------------------------------------------------------------------------
(* Claims about the orchestrator *)

RunningFor(s) == {p \in Pids : psid[p] = s /\ pstatus[p] = "running"}

\* C1: after any sequence of start-agent and stop-agent requests, at most one
\* relay process spawned for a given session_id is still running.
C1_OneRunningPerSession == \A s \in Sessions : Cardinality(RunningFor(s)) <= 1

\* C2: whenever stop-agent replies 200, the process it looked up for the
\* session has terminated and the session_id is no longer a key of
\* active_agents; when the session_id is not tracked it replies 404 and
\* neither active_agents nor any process changes.
C2_StopReplies ==
    [][ /\ \A t \in Threads :
             (/\ req[t].pc # "done" /\ req'[t].pc = "done"
              /\ req'[t].kind = "stop" /\ req'[t].code = 200)
                => /\ req[t].pc = "stop_wait"
                   /\ pstatus'[req[t].proc] = "exited"
                   /\ req[t].sid \notin DOMAIN active_agents'
        /\ \A t \in Threads, s \in Sessions :
             (StopAgent(t, s) /\ s \notin DOMAIN active_agents)
                => /\ req'[t].pc = "done" /\ req'[t].code = 404
                   /\ UNCHANGED <<active_agents, pstatus, psid>>
      ]_vars

C2_Witness ==
    /\ \E t \in Threads : req[t].kind = "stop" /\ req[t].code = 200
    /\ \E t \in Threads : req[t].kind = "stop" /\ req[t].code = 404

\* C3: whenever the poll after the 500ms sleep finds the process exited,
\* start-agent replies 500 ("Agent crashed on startup") and leaves the session
\* untracked; it replies 200 only when the process was running at the poll.
C3_PollDecidesReply ==
    [][ \A t \in Threads :
          (req[t].pc = "start_sleep" /\ req'[t].pc = "done")
             => /\ (pstatus[req[t].proc] = "exited")
                      => /\ req'[t].code = 500
                         /\ req'[t].detail = "crashed"
                         /\ req[t].sid \notin DOMAIN active_agents'
                /\ (req'[t].code = 200) => (pstatus[req[t].proc] = "running")
      ]_vars

C5_MissingFieldIs400 ==
    [][ \A t \in Threads :
          (req[t].pc = "idle" /\ req'[t].kind = "start" /\ ~req'[t].complete)
             => /\ req'[t].pc = "done" /\ req'[t].code = 400
                /\ UNCHANGED <<active_agents, pstatus, psid>>
      ]_vars

C5_Witness ==
    \E t \in Threads : req[t].kind = "start" /\ ~req[t].complete /\ req[t].code = 400
-----------------------------------------------------------------------------
(* Claims about the pipeline stages *)

Loggable(frame) ==
    IF frame.type = "LLMMessagesFrame"
    THEN {frame.messages[i] : i \in {j \in 1..Len(frame.messages) : ~Skipped(frame.messages[j])}}
    ELSE {}

\* C6: every message of an LLMMessagesFrame whose role is neither system nor
\* function and whose content is non-empty results in an addTranscript request
\* carrying that message's text.
C6_EveryMessageLogged ==
    (stage = "conversation_logger")
        => \A m \in Loggable(frame_in) :
              \E r \in DOMAIN transcripts :
                  r.text = m.content /\ r.speaker = Speaker(m.role)

\* C7: over any sequence of frames processed by one logger, no two
\* addTranscript requests are issued for the same role and the same message
\* content, and logged_messages only ever grows.
C7_Deduplicates ==
    /\ [](\A r \in DOMAIN transcripts : transcripts[r] <= 1)
    /\ [][logged_messages \subseteq logged_messages']_vars

C7_Witness ==
    /\ stage = "conversation_logger"
    /\ Loggable(frame_in) # {}
    /\ http_outcome = "none"
    /\ \A m \in Loggable(frame_in) : message_key(m.role, m.content) \in logged_messages

\* C8: ConversationLogger.process_frame returns the frame it was given, for
\* every frame and every outcome of the transcript request, and
\* ProductSearchProcessor.process_frame returns unchanged every frame that is
\* not a FunctionCallFrame named search_products.
C8_PassThrough ==
    /\ (stage = "conversation_logger") => (frame_out = frame_in /\ ~raised)
    /\ (stage = "product_processor" /\ ~IsSearchCall(frame_in))
          => (frame_out = frame_in /\ ~raised)

C8_Witness ==
    /\ stage = "conversation_logger"
    /\ http_outcome = "exception"
    /\ Loggable(frame_in) # {}
    /\ frame_out = frame_in

\* C9: the function-result LLMMessagesFrame that ProductSearchProcessor
\* produces for a search_products call is eventually delivered to the Gemini
\* stage: once it has left the pipeline, Gemini has received it.
C9_ResultsReachGemini == \A f \in search_results : f \in gemini_received

\* C10: for every FunctionCallFrame named search_products, process_frame
\* posts exactly one searchProducts request and returns one LLMMessagesFrame
\* holding a single message with role function and name search_products,
\* however the request ends; no exception escapes.
SearchCalls == {FunctionCallFrame(n) : n \in {m \in FunctionNames : m = "search_products"}}

C10_OneRequestOneReply ==
    [][ \A frame \in SearchCalls, outcome \in SearchOutcomes :
          ProductProcessFrame(frame, outcome)
             => /\ search_requests' = search_requests + 1
                /\ IsSearchResult(frame_out')
                /\ ~raised'
      ]_vars

C10_Witness ==
    /\ stage = "product_processor"
    /\ IsSearchCall(frame_in)
    /\ http_outcome = "timeout"
    /\ IsSearchResult(frame_out)
    /\ search_requests = 1

=============================================================================
